---- MODULE Spec2Model ----
(***************************************************************************)
(* A model of cloudnet_api_client: the download manager (dl.py), the date  *)
(* normalizer, the metadata filter and the raw-metadata mapper (client.py) *)
(* and the dataclasses they build (containers.py).                         *)
(***************************************************************************)
EXTENDS Integers, Sequences, FiniteSets, TLC

VARIABLES
    \* ---- dl.py ----
    phase,        \* "idle" | "running" | "returned" | "raised": where download() is
    run,          \* number of download() calls started so far
    metadata,     \* the list[Metadata] handed to download()
    disk,         \* output_directory: file name -> [exists, bytes]
    examined,     \* the disk as it was when the for loop of _download_files ran
    pc,           \* per entity: position of its _download_file task
    value,        \* asyncio.Semaphore._value
    limit,        \* concurrency_limit of the current run
    requested,    \* entities for which session.get(url) was called in this run
    result,       \* what download() handed back to its caller
    log,          \* per finished download() call: [ok, requested]
    \* ---- client.py ----
    q,            \* the last query call (metadata / raw_metadata) and its outcome
    f,            \* the last APIClient.filter call and its outcome
    mp            \* the last _build_raw_meta_objects call and its outcome

vars == <<phase, run, metadata, disk, examined, pc, value, limit, requested,
          result, log, q, f, mp>>

dlVars == <<phase, run, metadata, disk, examined, pc, value, limit, requested,
            result, log>>

\* ------------------------------------------------------------------ bounds
MaxEntities == 3   \* entities handed to download()
MaxLimit == 2      \* largest concurrency_limit tried
MaxChunks == 1     \* longest response body, in chunks of response.content.read
MaxRuns == 2       \* download() calls in a row over the same collection

\* ------------------------------------------------------- generic helpers
Last(s) == s[Len(s)]

SeqsUpTo(S, n) == UNION {[1..k -> S] : k \in 0..n}

\* ======================================================================
\* dl.py
\* ======================================================================
Names == {"a.nc", "b.nc"}

\* The two 8192-byte blocks a body is made of: block 1 is what the archive
\* holds, block 2 is anything else.
Chunks == {1, 2}

Archived == <<1>>

Absent == [exists |-> FALSE, bytes |-> <<>>]

File(b) == [exists |-> TRUE, bytes |-> b]

\* utils.md5sum / utils.sha256sum: deterministic digests of a file's bytes,
\* two different algorithms.
md5sum(file) == <<"md5", file.bytes>>

sha256sum(file) == <<"sha256", file.bytes>>

\* containers.py: the two Metadata variants, as the archive serves them: a
\* raw entity carries the MD5 of the uploaded file, a product entity the
\* SHA-256 of the archived file.
RawMetadata(name) ==
    [variant |-> "raw", download_url |-> <<"api", "download", "raw", name>>,
     checksum |-> md5sum(File(Archived))]

ProductMetadata(name) ==
    [variant |-> "product", download_url |-> <<"api", "download", "product", name>>,
     checksum |-> sha256sum(File(Archived))]

\* The catalogue the collections are cut from: raw a.nc, product b.nc,
\* product a.nc (same destination as the first), raw b.nc, ...
NameAt(i) == IF i % 2 = 1 THEN "a.nc" ELSE "b.nc"

EntityAt(i) == IF i % 3 = 1 THEN RawMetadata(NameAt(i)) ELSE ProductMetadata(NameAt(i))

\* destination = output_path / Path(meta.download_url.split("/")[-1]); the
\* url is kept as the list split("/") yields.
Destination(meta) == Last(meta.download_url)

\* The check as it would be with one algorithm for both variants.
_file_checksum_matches_sha(meta, file) == sha256sum(file) = meta.checksum

\* fun = md5sum if isinstance(meta, RawMetadata) else sha256sum
_file_checksum_matches(meta, file) ==
    IF meta.variant = "raw" THEN md5sum(file) = meta.checksum
    ELSE sha256sum(file) = meta.checksum

\* destination.exists() and _file_checksum_matches(meta, destination)
AlreadyDownloaded(meta, d) ==
    d[Destination(meta)].exists /\ _file_checksum_matches(meta, d[Destination(meta)])

Tasks == DOMAIN metadata

InFlight == {i \in Tasks : pc[i] \in {"connecting", "streaming"}}

NoneResult == [none |-> TRUE, paths |-> <<>>]

IdleQ == [op |-> "idle"]
IdleF == [op |-> "idle"]
IdleM == [op |-> "idle"]

InitDl ==
    /\ phase = "idle"
    /\ run = 0
    /\ metadata \in {[i \in 1..k |-> EntityAt(i)] : k \in 1..MaxEntities}
    /\ disk \in [Names -> {Absent, File(<<>>), File(Archived)}]
    /\ examined = disk
    /\ pc = [i \in DOMAIN metadata |-> "none"]
    /\ value = 0
    /\ limit = 0
    /\ requested = {}
    /\ result = NoneResult
    /\ log = <<>>
    /\ q = IdleQ
    /\ f = IdleF
    /\ mp = IdleM

\* download(metadata, output_directory, concurrency_limit), called on a
\* fresh directory state or again after a call that returned, up to the
\* `await asyncio.gather(*tasks)`: the semaphore is made, every entity is
\* examined against the disk and a task is created for each one not skipped.
\* The loop holds no await, so no task runs before it ends.
Download(n) ==
    /\ phase \in {"idle", "returned"}
    /\ run < MaxRuns
    /\ phase' = "running"
    /\ run' = run + 1
    /\ limit' = n
    /\ value' = n
    /\ examined' = disk
    /\ pc' = [i \in Tasks |->
                IF AlreadyDownloaded(metadata[i], disk) THEN "skipped" ELSE "waiting"]
    /\ requested' = {}
    /\ UNCHANGED <<metadata, disk, result, log, q, f, mp>>

\* Acquire as it would be were the gate not consulted.
AcquireUnguarded(i) ==
    /\ phase = "running"
    /\ pc[i] = "waiting"
    /\ value' = value - 1
    /\ pc' = [pc EXCEPT ![i] = "connecting"]
    /\ requested' = requested \cup {i}
    /\ UNCHANGED <<phase, run, metadata, disk, examined, limit, result, log, q, f, mp>>

\* `async with semaphore`: asyncio's semaphore is taken when its value is
\* positive and hands permits out in the order the tasks asked (the order
\* of creation); then session.get(url) is called.
Acquire(i) ==
    /\ phase = "running"
    /\ pc[i] = "waiting"
    /\ value > 0
    /\ \A j \in Tasks : j < i => pc[j] # "waiting"
    /\ value' = value - 1
    /\ pc' = [pc EXCEPT ![i] = "connecting"]
    /\ requested' = requested \cup {i}
    /\ UNCHANGED <<phase, run, metadata, disk, examined, limit, result, log, q, f, mp>>

\* The response arrives with a success status: raise_for_status() passes
\* and destination.open("wb") creates or truncates the file.
ResponseOk(i) ==
    /\ phase = "running"
    /\ pc[i] = "connecting"
    /\ pc' = [pc EXCEPT ![i] = "streaming"]
    /\ disk' = [disk EXCEPT ![Destination(metadata[i])] = File(<<>>)]
    /\ UNCHANGED <<phase, run, metadata, examined, value, limit, requested, result,
                   log, q, f, mp>>

\* session.get raises (connection error) or raise_for_status() raises
\* (non-success status): both context managers exit, the permit goes back.
ResponseError(i) ==
    /\ phase = "running"
    /\ pc[i] = "connecting"
    /\ pc' = [pc EXCEPT ![i] = "failed"]
    /\ value' = value + 1
    /\ UNCHANGED <<phase, run, metadata, disk, examined, limit, requested, result,
                   log, q, f, mp>>

\* chunk = await response.content.read(8192), non-empty: file_out.write(chunk)
ReadChunk(i, c) ==
    /\ phase = "running"
    /\ pc[i] = "streaming"
    /\ Len(disk[Destination(metadata[i])].bytes) < MaxChunks
    /\ disk' = [disk EXCEPT ![Destination(metadata[i])] = File(@.bytes \o <<c>>)]
    /\ UNCHANGED <<phase, run, metadata, examined, pc, value, limit, requested, result,
                   log, q, f, mp>>

\* chunk is empty: break, the file and the response are closed, the permit
\* goes back and the task ends.
ReadEnd(i) ==
    /\ phase = "running"
    /\ pc[i] = "streaming"
    /\ pc' = [pc EXCEPT ![i] = "done"]
    /\ value' = value + 1
    /\ UNCHANGED <<phase, run, metadata, disk, examined, limit, requested, result,
                   log, q, f, mp>>

\* response.content.read raises (connection lost, payload error): the file
\* is closed with what was written, the permit goes back, the task fails.
ReadError(i) ==
    /\ phase = "running"
    /\ pc[i] = "streaming"
    /\ pc' = [pc EXCEPT ![i] = "failed"]
    /\ value' = value + 1
    /\ UNCHANGED <<phase, run, metadata, disk, examined, limit, requested, result,
                   log, q, f, mp>>

\* gather(*tasks) without return_exceptions: the first task exception is
\* raised into _download_files; the session closes, the exception leaves
\* asyncio.run, which cancels every task still alive. A cancelled task
\* leaves `async with semaphore` and gives its permit back.
GatherRaises ==
    /\ phase = "running"
    /\ \E i \in Tasks : pc[i] = "failed"
    /\ phase' = "raised"
    /\ pc' = [i \in Tasks |->
                IF pc[i] \in {"waiting", "connecting", "streaming"} THEN "cancelled"
                ELSE pc[i]]
    /\ value' = value + Cardinality(InFlight)
    /\ log' = Append(log, [ok |-> FALSE, requested |-> requested])
    /\ UNCHANGED <<run, metadata, disk, examined, limit, requested, result, q, f, mp>>

\* gather(*tasks) returns once every task is done; download() returns None.
GatherReturns ==
    /\ phase = "running"
    /\ \A i \in Tasks : pc[i] \in {"skipped", "done"}
    /\ phase' = "returned"
    /\ result' = NoneResult
    /\ log' = Append(log, [ok |-> TRUE, requested |-> requested])
    /\ UNCHANGED <<run, metadata, disk, examined, pc, value, limit, requested, q, f, mp>>

NextDl ==
    \/ \E n \in 1..MaxLimit : Download(n)
    \/ \E i \in Tasks : Acquire(i)
    \/ \E i \in Tasks : ResponseOk(i)
    \/ \E i \in Tasks : ResponseError(i)
    \/ \E i \in Tasks, c \in Chunks : ReadChunk(i, c)
    \/ \E i \in Tasks : ReadEnd(i)
    \/ \E i \in Tasks : ReadError(i)
    \/ GatherRaises
    \/ GatherReturns

Spec == InitDl /\ [][NextDl]_vars

\* One step of the task of entity i: the event loop runs a task that is
\* ready, and a request that was sent is answered or fails.
TransferStep(i) ==
    /\ i \in Tasks
    /\ \/ Acquire(i)
       \/ ResponseOk(i)
       \/ ResponseError(i)
       \/ \E c \in Chunks : ReadChunk(i, c)
       \/ ReadEnd(i)
       \/ ReadError(i)

\* The download manager under the scheduling asyncio gives it: a task that
\* can run is run, every transfer in flight comes to an end, and gather
\* wakes _download_files once it has a result or an exception.
SpecFair ==
    /\ InitDl
    /\ [][NextDl]_vars
    /\ \A i \in 1..MaxEntities : WF_vars(TransferStep(i))
    /\ WF_vars(GatherRaises)
    /\ WF_vars(GatherReturns)

\* ======================================================================
\* client.py: the date normalizer and the two metadata queries
\* ======================================================================
\* A str is kept as the sequence of its characters.
Digits == {"0", "1", "2", "3", "4", "5", "6", "7", "8", "9"}

DigitChars == <<"0", "1", "2", "3", "4", "5", "6", "7", "8", "9">>

DigitValue(c) == CHOOSE n \in 0..9 : DigitChars[n + 1] = c

AllDigits(s) == \A i \in DOMAIN s : s[i] \in Digits

\* int(s) of a string of decimal digits
RECURSIVE ToInt(_)
ToInt(s) ==
    IF s = <<>> THEN 0
    ELSE 10 * ToInt(SubSeq(s, 1, Len(s) - 1)) + DigitValue(s[Len(s)])

\* s.split("-")
RECURSIVE Split(_)
Split(s) ==
    IF \A i \in DOMAIN s : s[i] # "-" THEN <<s>>
    ELSE LET k == CHOOSE i \in DOMAIN s :
                      s[i] = "-" /\ \A j \in 1..(i - 1) : s[j] # "-"
         IN  <<SubSeq(s, 1, k - 1)>> \o Split(SubSeq(s, k + 1, Len(s)))

\* A DateParam: None, a str or a datetime.date.
None == [t |-> "none", s |-> <<>>, v |-> <<0, 0, 0>>]

Str(chars) == [t |-> "str", s |-> chars, v |-> <<0, 0, 0>>]

Date(y, m, d) == [t |-> "date", s |-> <<>>, v |-> <<y, m, d>>]

\* calendar.isleap
isleap(year) == year % 4 = 0 /\ (year % 100 # 0 \/ year % 400 = 0)

\* calendar.mdays
mdays == <<31, 28, 31, 30, 31, 30, 31, 31, 30, 31, 30, 31>>

\* calendar.monthrange(year, month)[1]
monthrange(year, month) ==
    mdays[month] + (IF month = 2 /\ isleap(year) THEN 1 ELSE 0)

\* datetime.date(y, m, d) raises ValueError outside these ranges.
ValidDate(y, m, d) ==
    /\ y \in 1..9999
    /\ m \in 1..12
    /\ d >= 1
    /\ d <= monthrange(y, m)

\* re.fullmatch(r"\d{4}-\d{2}-\d{2}", date)
fullmatch_ymd(s) ==
    /\ Len(s) = 10
    /\ s[5] = "-"
    /\ s[8] = "-"
    /\ AllDigits(SubSeq(s, 1, 4)) /\ AllDigits(SubSeq(s, 6, 7)) /\ AllDigits(SubSeq(s, 9, 10))

\* re.fullmatch(r"\d{4}-\d{2}", date)
fullmatch_ym(s) ==
    /\ Len(s) = 7
    /\ s[5] = "-"
    /\ AllDigits(SubSeq(s, 1, 4)) /\ AllDigits(SubSeq(s, 6, 7))

\* re.fullmatch(r"\d{4}", date)
fullmatch_y(s) == Len(s) = 4 /\ AllDigits(s)

\* The directives of strptime: %Y is four digits; %m and %d are one or two
\* digits naming a month 1..12 and a day 1..31.
DirectiveY(p) == Len(p) = 4 /\ AllDigits(p)

DirectiveM(p) == Len(p) \in 1..2 /\ AllDigits(p) /\ ToInt(p) \in 1..12

DirectiveD(p) == Len(p) \in 1..2 /\ AllDigits(p) /\ ToInt(p) \in 1..31

Failed == [raised |-> TRUE, v |-> <<0, 0, 0>>]

Parsed(y, m, d) == [raised |-> FALSE, v |-> <<y, m, d>>]

\* datetime.datetime.strptime(s, "%Y-%m-%d"): ValueError unless the whole
\* string matches the directives and names a date of the calendar.
strptime_ymd(s) ==
    LET p == Split(s) IN
    IF Len(p) = 3 /\ DirectiveY(p[1]) /\ DirectiveM(p[2]) /\ DirectiveD(p[3])
       /\ ValidDate(ToInt(p[1]), ToInt(p[2]), ToInt(p[3]))
    THEN Parsed(ToInt(p[1]), ToInt(p[2]), ToInt(p[3]))
    ELSE Failed

\* datetime.datetime.strptime(s, "%Y-%m"): the day defaults to 1.
strptime_ym(s) ==
    LET p == Split(s) IN
    IF Len(p) = 2 /\ DirectiveY(p[1]) /\ DirectiveM(p[2])
       /\ ValidDate(ToInt(p[1]), ToInt(p[2]), 1)
    THEN Parsed(ToInt(p[1]), ToInt(p[2]), 1)
    ELSE Failed

\* bool(x) of a DateParam: None and "" are falsy.
Truthy(d) == d.t = "date" \/ (d.t = "str" /\ d.s # <<>>)

\* APIClient._parse_date
_parse_date(date) ==
    IF ~Truthy(date) THEN Failed
    ELSE IF date.t = "date" THEN [raised |-> FALSE, v |-> date.v]
    ELSE strptime_ymd(date.s)

EmptyDict == [k \in {} |-> None]

\* params[key] = datetime.date(...) on a dict
Put(params, key, v) == (key :> [t |-> "date", s |-> <<>>, v |-> v]) @@ params

Raise == [raised |-> TRUE, params |-> EmptyDict]

Return(params) == [raised |-> FALSE, params |-> params]

\* The else branch of _mangle_dates: the explicit pair.
MangleRange(params, date_from, date_to) ==
    LET pf == _parse_date(date_from)
        pt == _parse_date(date_to)
    IN  IF (Truthy(date_from) /\ pf.raised) \/ (Truthy(date_to) /\ pt.raised) THEN Raise
        ELSE LET p1 == IF Truthy(date_from) THEN Put(params, "dateFrom", pf.v) ELSE params
                 p2 == IF Truthy(date_to) THEN Put(p1, "dateTo", pt.v) ELSE p1
             IN  Return(p2)

\* The str branch of _mangle_dates.
MangleString(s) ==
    IF fullmatch_ymd(s) THEN
        LET p == _parse_date(Str(s)) IN
        IF p.raised THEN Raise ELSE Return(Put(EmptyDict, "date", p.v))
    ELSE IF fullmatch_ym(s) THEN
        LET p == strptime_ym(s) IN
        IF p.raised THEN Raise
        ELSE Return(Put(Put(EmptyDict, "dateFrom", <<p.v[1], p.v[2], 1>>),
                        "dateTo", <<p.v[1], p.v[2], monthrange(p.v[1], p.v[2])>>))
    ELSE IF fullmatch_y(s) THEN
        IF ValidDate(ToInt(s), 1, 1)
        THEN Return(Put(Put(EmptyDict, "dateFrom", <<ToInt(s), 1, 1>>),
                        "dateTo", <<ToInt(s), 12, 31>>))
        ELSE Raise
    ELSE Raise

\* _mangle_dates as it would be were the pair applied after a date as well.
_mangle_dates_pair_applied(date, date_from, date_to) ==
    LET first == IF date.t = "str" THEN MangleString(date.s)
                 ELSE IF date.t = "date" THEN Return(Put(EmptyDict, "date", date.v))
                 ELSE Return(EmptyDict)
    IN  IF first.raised THEN Raise ELSE MangleRange(first.params, date_from, date_to)

\* APIClient._mangle_dates
_mangle_dates(date, date_from, date_to) ==
    IF date.t = "str" THEN MangleString(date.s)
    ELSE IF date.t = "date" THEN Return(Put(EmptyDict, "date", date.v))
    ELSE MangleRange(EmptyDict, date_from, date_to)

\* ---- the query inputs tried
FirstYear == 1896

LastYear == 2004

Years == FirstYear..LastYear

Pad2(n) == <<DigitChars[(n \div 10) + 1], DigitChars[(n % 10) + 1]>>

Pad4(n) == Pad2(n \div 100) \o Pad2(n % 100)

FormatYM(y, m) == Pad4(y) \o <<"-">> \o Pad2(m)

FormatYMD(y, m, d) == Pad4(y) \o <<"-">> \o Pad2(m) \o <<"-">> \o Pad2(d)

DateStrings ==
    {FormatYM(y, m) : y \in Years, m \in 0..13}
    \cup {Pad4(y) : y \in Years \cup {0}}
    \cup {FormatYMD(y, m, d) : y \in {FirstYear, LastYear - 4, LastYear - 3}, m \in {2, 13}, d \in {0, 28, 29, 30}}
    \cup {FormatYM(0, 5),
          <<"2", "0", "0", "0", "0", "2", "0", "1">>,
          <<"2", "0", "0", "0", "/", "0", "2", "/", "0", "1">>,
          <<"2", "0", "0", "0", "-", "2", "-", "1">>,
          <<"2", "0", "0", "0", "-", "2">>,
          <<"x">>,
          <<>>}

DateInputs == {None, Date(LastYear, 2, 28)} \cup {Str(s) : s \in DateStrings}

BoundInputs ==
    {None, Date(LastYear, 8, 1), Str(<<>>), Str(FormatYMD(LastYear, 8, 1)),
     Str(FormatYMD(LastYear, 2, 30)), Str(<<"2", "0", "0", "0", "-", "8", "-", "7">>)}

NoRequests == <<>>

\* The state of the other components when only the queries are exercised.
DlIdle ==
    /\ phase = "idle"
    /\ run = 0
    /\ metadata = <<>>
    /\ disk = [n \in Names |-> Absent]
    /\ examined = [n \in Names |-> Absent]
    /\ pc = <<>>
    /\ value = 0
    /\ limit = 0
    /\ requested = {}
    /\ result = NoneResult
    /\ log = <<>>

InitClient ==
    /\ DlIdle
    /\ q = IdleQ
    /\ f = IdleF
    /\ mp = IdleM

\* APIClient.metadata: _mangle_dates, then _get_response("files", params).
\* The request carries the normalized date keys next to site, product,
\* instrument, instrumentPid and showLegacy.
CallMetadata(date, date_from, date_to) ==
    LET dp == _mangle_dates(date, date_from, date_to) IN
    /\ q.op = "idle"
    /\ q' = [op |-> "metadata", date |-> date, date_from |-> date_from,
             date_to |-> date_to, raised |-> dp.raised, date_params |-> dp.params,
             http |-> IF dp.raised THEN NoRequests
                      ELSE <<[endpoint |-> "files", dates |-> dp.params]>>]
    /\ UNCHANGED <<dlVars, f, mp>>

\* APIClient.raw_metadata(site_id, date, instrument_pid): the date goes into
\* params as it came and _get_response("raw-files", params) is called.
CallRawMetadata(date) ==
    /\ q.op = "idle"
    /\ q' = [op |-> "raw_metadata", date |-> date, date_from |-> None,
             date_to |-> None, raised |-> FALSE, date_params |-> ("date" :> date),
             http |-> <<[endpoint |-> "raw-files", dates |-> ("date" :> date)]>>]
    /\ UNCHANGED <<dlVars, f, mp>>

NextClient ==
    \/ q.op = "idle" /\ \E d \in DateInputs \ {None} : CallRawMetadata(d)
    \/ q.op = "idle" /\ \E d \in DateInputs, a \in BoundInputs, b \in BoundInputs :
                            CallMetadata(d, a, b)

SpecClient == InitClient /\ [][NextClient]_vars

\* ======================================================================
\* client.py: APIClient.filter
\* ======================================================================
MaxMeta == 2       \* entities handed to filter()

\* str.lower() over the characters file names and patterns are made of
Lower(c) == CASE c = "A" -> "a" [] c = "B" -> "b" [] OTHER -> c

LowerStr(s) == [i \in DOMAIN s |-> Lower(s[i])]

\* filename.startswith(p) / filename.endswith(p)
startswith(s, p) == Len(p) <= Len(s) /\ SubSeq(s, 1, Len(p)) = p

endswith(s, p) == Len(p) <= Len(s) /\ SubSeq(s, Len(s) - Len(p) + 1, Len(s)) = p

\* re.search(pattern, filename, re.I) for a pattern of plain letters: the
\* pattern occurs somewhere in the name, letter case ignored.
search(pattern, filename) ==
    \E k \in 0..(Len(filename) - Len(pattern)) :
        SubSeq(LowerStr(filename), k + 1, k + Len(pattern)) = LowerStr(pattern)

\* Optional arguments: None or a value.
NoStr == [some |-> FALSE, v |-> <<>>]

SomeStr(chars) == [some |-> TRUE, v |-> chars]

NoTags == [some |-> FALSE, v |-> {}]

SomeTags(set) == [some |-> TRUE, v |-> set]

\* bool(x): None, "" and an empty collection are falsy.
TruthyStr(o) == o.some /\ o.v # <<>>

TruthyTags(o) == o.some /\ o.v # {}

\* isinstance(m, RawMetadata)
IsRaw(m) == m.variant = "raw"

\* APIClient.filter: six list comprehensions, each run when its argument is
\* truthy.
filter(meta, a) ==
    LET m1 == IF TruthyStr(a.include_pattern)
              THEN SelectSeq(meta, LAMBDA m : search(a.include_pattern.v, m.filename))
              ELSE meta
        m2 == IF TruthyStr(a.exclude_pattern)
              THEN SelectSeq(m1, LAMBDA m : ~search(a.exclude_pattern.v, m.filename))
              ELSE m1
        m3 == IF TruthyStr(a.filename_prefix)
              THEN SelectSeq(m2, LAMBDA m : startswith(m.filename, a.filename_prefix.v))
              ELSE m2
        m4 == IF TruthyStr(a.filename_suffix)
              THEN SelectSeq(m3, LAMBDA m : endswith(m.filename, a.filename_suffix.v))
              ELSE m3
        m5 == IF TruthyTags(a.include_tag_subset)
              THEN SelectSeq(m4, LAMBDA m : /\ IsRaw(m)
                                            /\ TruthyTags(m.tags)
                                            /\ a.include_tag_subset.v \subseteq m.tags.v)
              ELSE m4
        m6 == IF TruthyTags(a.exclude_tag_subset)
              THEN SelectSeq(m5, LAMBDA m : /\ IsRaw(m)
                                            /\ TruthyTags(m.tags)
                                            /\ ~(a.exclude_tag_subset.v \subseteq m.tags.v))
              ELSE m5
    IN  m6

\* ---- the filter inputs tried
FilterEntity(variant, filename, tags) ==
    [variant |-> variant, filename |-> filename, tags |-> tags]

FilterEntities ==
    {FilterEntity("raw", <<"a", "b">>, SomeTags({"t1"})),
     FilterEntity("raw", <<"A", "b">>, SomeTags({"t1", "t2"})),
     FilterEntity("raw", <<"b", "a">>, NoTags),
     FilterEntity("raw", <<"b">>, SomeTags({})),
     FilterEntity("product", <<"a", "b">>, NoTags),
     FilterEntity("product", <<"b", "a">>, NoTags)}

NoArgs ==
    [include_pattern |-> NoStr, exclude_pattern |-> NoStr, filename_prefix |-> NoStr,
     filename_suffix |-> NoStr, include_tag_subset |-> NoTags,
     exclude_tag_subset |-> NoTags]

FilterArgs ==
    [include_pattern : {NoStr, SomeStr(<<>>), SomeStr(<<"a">>), SomeStr(<<"B">>)},
     exclude_pattern : {NoStr, SomeStr(<<>>), SomeStr(<<"b", "a">>)},
     filename_prefix : {NoStr, SomeStr(<<"a">>)},
     filename_suffix : {NoStr, SomeStr(<<>>), SomeStr(<<"b">>)},
     include_tag_subset : {NoTags, SomeTags({}), SomeTags({"t1"}), SomeTags({"t1", "t2"})},
     exclude_tag_subset : {NoTags, SomeTags({}), SomeTags({"t2"})}]

InitFilter ==
    /\ DlIdle
    /\ q = IdleQ
    /\ f = IdleF
    /\ mp = IdleM

CallFilter(meta, a) ==
    /\ f' = [op |-> "filter", meta |-> meta, args |-> a, out |-> filter(meta, a)]
    /\ UNCHANGED <<dlVars, q, mp>>

NextFilter ==
    f.op = "idle" /\ \E meta \in SeqsUpTo(FilterEntities, MaxMeta), a \in FilterArgs :
                         CallFilter(meta, a)

SpecFilter == InitFilter /\ [][NextFilter]_vars

\* ======================================================================
\* client.py / containers.py: the raw-metadata mapper
\* ======================================================================
MaxRecords == 3    \* wire records in one response

UpperCase == {"A", "B", "C", "D", "E", "F", "G", "H", "I", "J", "K", "L", "M",
              "N", "O", "P", "Q", "R", "S", "T", "U", "V", "W", "X", "Y", "Z"}

LowerCase == <<"a", "b", "c", "d", "e", "f", "g", "h", "i", "j", "k", "l", "m",
               "n", "o", "p", "q", "r", "s", "t", "u", "v", "w", "x", "y", "z">>

UpperCaseSeq == <<"A", "B", "C", "D", "E", "F", "G", "H", "I", "J", "K", "L", "M",
                  "N", "O", "P", "Q", "R", "S", "T", "U", "V", "W", "X", "Y", "Z">>

\* c.lower()
ToLower(c) ==
    IF c \in UpperCase THEN LowerCase[CHOOSE i \in 1..26 : UpperCaseSeq[i] = c] ELSE c

\* _to_snake: re.sub(r"(?<!^)(?=[A-Z])", "_", name).lower(): an underscore
\* goes before every capital that is not the first character.
RECURSIVE _to_snake(_)
_to_snake(name) ==
    IF name = <<>> THEN <<>>
    ELSE LET n == Len(name)
             c == name[n]
         IN  _to_snake(SubSeq(name, 1, n - 1))
                 \o (IF c \in UpperCase /\ n > 1 THEN <<"_">> ELSE <<>>)
                 \o <<ToLower(c)>>

\* containers.py: {f.name for f in fields(RawMetadata)}
RawMetadataFields ==
    {<<"u", "u", "i", "d">>,
     <<"c", "h", "e", "c", "k", "s", "u", "m">>,
     <<"s", "i", "z", "e">>,
     <<"f", "i", "l", "e", "n", "a", "m", "e">>,
     <<"m", "e", "a", "s", "u", "r", "e", "m", "e", "n", "t", "_", "d", "a", "t", "e">>,
     <<"d", "o", "w", "n", "l", "o", "a", "d", "_", "u", "r", "l">>,
     <<"c", "r", "e", "a", "t", "e", "d", "_", "a", "t">>,
     <<"u", "p", "d", "a", "t", "e", "d", "_", "a", "t">>,
     <<"s", "t", "a", "t", "u", "s">>,
     <<"i", "n", "s", "t", "r", "u", "m", "e", "n", "t">>,
     <<"t", "a", "g", "s">>}

instrument == <<"i", "n", "s", "t", "r", "u", "m", "e", "n", "t">>

instrumentInfo == <<"i", "n", "s", "t", "r", "u", "m", "e", "n", "t", "I", "n", "f", "o">>

\* containers.py: the fields of Instrument, none with a default
InstrumentFields ==
    {"instrument_id", "model", "type", "name", "uuid", "pid", "owners", "serial_number"}

\* A dataclass __init__ called with keyword arguments only: TypeError when a
\* keyword is no field or a field without default is missing.
Construct(fieldNames, kwargs) ==
    IF DOMAIN kwargs = fieldNames
    THEN [raised |-> FALSE, obj |-> kwargs]
    ELSE [raised |-> TRUE, obj |-> kwargs]

\* The eight sub-keys _construct_instrument reads.
InstrumentInfoKeys ==
    {"instrumentId", "model", "type", "uuid", "pid", "owners", "serialNumber", "name"}

\* _construct_instrument: KeyError when instrumentInfo or a sub-key is
\* missing; then Instrument(id=..., model=..., ...).
_construct_instrument(obj) ==
    IF instrumentInfo \notin DOMAIN obj
       \/ ~(InstrumentInfoKeys \subseteq DOMAIN obj[instrumentInfo])
    THEN [raised |-> TRUE, obj |-> <<>>]
    ELSE LET info == obj[instrumentInfo] IN
         Construct(InstrumentFields,
                   [id |-> info["instrumentId"], model |-> info["model"],
                    type |-> info["type"], uuid |-> info["uuid"], pid |-> info["pid"],
                    owners |-> info["owners"], serial_number |-> info["serialNumber"],
                    name |-> info["name"]])

\* {_to_snake(k): v for k, v in obj.items() if _to_snake(k) in field_names}
SnakeItems(obj, field_names) ==
    LET kept == {k \in DOMAIN obj : _to_snake(k) \in field_names} IN
    [s \in {_to_snake(k) : k \in kept} |->
        obj[CHOOSE k \in kept : _to_snake(k) = s]]

\* One element of the list comprehension of _build_raw_meta_objects.
BuildRawMeta(obj) ==
    LET inst == _construct_instrument(obj) IN
    IF inst.raised THEN [raised |-> TRUE, obj |-> <<>>]
    ELSE Construct(RawMetadataFields,
                   (instrument :> inst.obj)
                       @@ SnakeItems(obj, RawMetadataFields \ {instrument}))

\* _build_raw_meta_objects: the first record that fails fails the call.
_build_raw_meta_objects(res) ==
    LET built == [i \in DOMAIN res |-> BuildRawMeta(res[i])] IN
    IF \E i \in DOMAIN res : built[i].raised
    THEN [raised |-> TRUE, out |-> <<>>]
    ELSE [raised |-> FALSE, out |-> [i \in DOMAIN res |-> built[i].obj]]

\* ---- the wire records tried
InstrumentInfo(n) ==
    [instrumentId |-> <<"id", n>>, model |-> <<"model", n>>, type |-> <<"type", n>>,
     uuid |-> <<"uuid", n>>, pid |-> <<"pid", n>>, owners |-> <<"owners", n>>,
     serialNumber |-> <<"serial", n>>, name |-> <<"name", n>>]

\* The keys a raw-files record carries besides instrumentInfo.
RawWireKeys ==
    {<<"u", "u", "i", "d">>,
     <<"c", "h", "e", "c", "k", "s", "u", "m">>,
     <<"s", "i", "z", "e">>,
     <<"f", "i", "l", "e", "n", "a", "m", "e">>,
     <<"m", "e", "a", "s", "u", "r", "e", "m", "e", "n", "t", "D", "a", "t", "e">>,
     <<"d", "o", "w", "n", "l", "o", "a", "d", "U", "r", "l">>,
     <<"c", "r", "e", "a", "t", "e", "d", "A", "t">>,
     <<"u", "p", "d", "a", "t", "e", "d", "A", "t">>,
     <<"s", "t", "a", "t", "u", "s">>,
     <<"t", "a", "g", "s">>}

siteId == <<"s", "i", "t", "e", "I", "d">>

\* A record with every base and raw-specific field, one key the entity has
\* no field for, and the nested instrumentInfo.
CompleteRecord(n) ==
    (instrumentInfo :> InstrumentInfo(n))
        @@ (siteId :> <<"site", n>>)
        @@ [k \in RawWireKeys |-> <<k, n>>]

Without(fn, k) == [x \in DOMAIN fn \ {k} |-> fn[x]]

WireRecords ==
    {CompleteRecord(1), CompleteRecord(2),
     Without(CompleteRecord(1), instrumentInfo),
     Without(CompleteRecord(1), <<"t", "a", "g", "s">>),
     (instrumentInfo :> Without(InstrumentInfo(1), "serialNumber")) @@ CompleteRecord(1)}

IsComplete(obj) ==
    /\ RawWireKeys \subseteq DOMAIN obj
    /\ instrumentInfo \in DOMAIN obj
    /\ InstrumentInfoKeys \subseteq DOMAIN obj[instrumentInfo]

InitMap ==
    /\ DlIdle
    /\ q = IdleQ
    /\ f = IdleF
    /\ mp = IdleM

CallBuildRawMeta(res) ==
    LET r == _build_raw_meta_objects(res) IN
    /\ mp' = [op |-> "raw", res |-> res, raised |-> r.raised, out |-> r.out]
    /\ UNCHANGED <<dlVars, q, f>>

NextMap ==
    mp.op = "idle" /\ \E res \in SeqsUpTo(WireRecords, MaxRecords) : CallBuildRawMeta(res)

SpecMap == InitMap /\ [][NextMap]_vars

\* ======================================================================
\* Properties of the download manager (checked under Spec)
\* ======================================================================
Ended == phase \in {"returned", "raised"}

\* The file holds the bytes the entity's checksum was taken from, under the
\* algorithm of the entity's variant.
Verified(meta, file) ==
    /\ file.exists
    /\ \/ meta.variant = "raw" /\ meta.checksum = <<"md5", file.bytes>>
       \/ meta.variant # "raw" /\ meta.checksum = <<"sha256", file.bytes>>

DistinctDestinations ==
    \A i, j \in Tasks : i # j => Destination(metadata[i]) # Destination(metadata[j])

\* C1: at every moment of a run with concurrency_limit = N >= 1 the number
\* of transfers in flight (gate acquired, not yet released) is at most N.
C1_InFlightAtMostLimit == Cardinality(InFlight) <= limit

\* C1 witness: N transfers are in flight while another one waits for a permit.
C1_Witness ==
    /\ phase = "running"
    /\ Cardinality(InFlight) = limit
    /\ \E i \in Tasks : pc[i] = "waiting"

\* C2: when one transfer fails while a sibling transfer is pending or in
\* flight, no sibling is cancelled or abandoned and the run does not end by
\* an exception.
C2_FailureIsolated ==
    (\E i, j \in Tasks : i # j /\ pc[i] = "failed" /\ pc[j] # "skipped") =>
        /\ phase # "raised"
        /\ \A j \in Tasks : pc[j] # "cancelled"

C4_SecondRunNoTransfers ==
    (run = 2 /\ log[1].ok) => requested = {}

\* C4 amended: after a first run that returned and left at every entity's
\* destination a file with the entity's recorded checksum, a second run
\* over the same collection and directory issues no transfer.
C4_SecondRunNoTransfersWhenVerified ==
    (/\ run = 2
     /\ log[1].ok
     /\ \A i \in Tasks : Verified(metadata[i], examined[Destination(metadata[i])]))
        => requested = {}

\* C4 witness: the first run fetched something, left every file verified,
\* and the second run has returned.
C4_Witness ==
    /\ run = 2
    /\ phase = "returned"
    /\ log[1].ok
    /\ log[1].requested # {}
    /\ \A i \in Tasks : Verified(metadata[i], examined[Destination(metadata[i])])

\* C5: a run over k entities with distinct destinations that returns hands
\* back k paths, one per entity, each naming a file that exists.
C5_ReturnsOnePathPerEntity ==
    (phase = "returned" /\ DistinctDestinations) =>
        /\ ~result.none
        /\ Len(result.paths) = Len(metadata)
        /\ \A i \in DOMAIN result.paths : disk[result.paths[i]].exists

\* ======================================================================
\* Properties of the queries (checked under SpecClient)
\* ======================================================================
Called == q.op \in {"metadata", "raw_metadata"}

\* The date string has none of the shapes YYYY-MM-DD, YYYY-MM, YYYY.
Misshapen(d) ==
    d.t = "str" /\ ~(fullmatch_ymd(d.s) \/ fullmatch_ym(d.s) \/ fullmatch_y(d.s))

\* The bound is a string that does not parse as a %Y-%m-%d date.
Unparsable(d) == d.t = "str" /\ strptime_ymd(d.s).raised

\* C6: a metadata or raw_metadata call with a misshapen date string, or with
\* a date_from or date_to string that does not parse, raises and has issued
\* no HTTP request.
C6_BadDatesRaiseBeforeRequest ==
    (Called /\ (Misshapen(q.date) \/ Unparsable(q.date_from) \/ Unparsable(q.date_to)))
        => (q.raised /\ q.http = NoRequests)

\* The last day of a month by the Gregorian rule.
GregorianLeap(y) == y % 400 = 0 \/ (y % 4 = 0 /\ y % 100 # 0)

LastDayOfMonth(y, m) ==
    CASE m = 2 -> IF GregorianLeap(y) THEN 29 ELSE 28
      [] m \in {4, 6, 9, 11} -> 30
      [] OTHER -> 31

\* The year and the month a string YYYY-MM names.
YearOf(d) == ToInt(SubSeq(d.s, 1, 4))

MonthOf(d) == ToInt(SubSeq(d.s, 6, 7))

IsYearMonth(d) ==
    /\ d.t = "str"
    /\ Len(d.s) = 7 /\ d.s[5] = "-" /\ AllDigits(SubSeq(d.s, 1, 4) \o SubSeq(d.s, 6, 7))
    /\ YearOf(d) \in Years
    /\ MonthOf(d) \in 1..12

\* C7: for a date string YYYY-MM with month 01..12 the normalizer emits
\* exactly dateFrom = day 1 and dateTo = the last calendar day of that
\* month, and no date key, whatever date_from and date_to were passed.
C7_YearMonthSpansTheMonth ==
    (q.op = "metadata" /\ IsYearMonth(q.date)) =>
        /\ ~q.raised
        /\ DOMAIN q.date_params = {"dateFrom", "dateTo"}
        /\ q.date_params["dateFrom"] = Date(YearOf(q.date), MonthOf(q.date), 1)
        /\ q.date_params["dateTo"] =
               Date(YearOf(q.date), MonthOf(q.date),
                    LastDayOfMonth(YearOf(q.date), MonthOf(q.date)))

\* C7 witness: February of a leap year, normalized while a date_from and a
\* date_to were passed alongside.
C7_Witness ==
    /\ q.op = "metadata"
    /\ IsYearMonth(q.date)
    /\ MonthOf(q.date) = 2
    /\ GregorianLeap(YearOf(q.date))
    /\ q.date_from.t = "str" /\ ~Unparsable(q.date_from) /\ q.date_from.s # <<>>
    /\ q.date_to.t = "date"
    /\ q.date_params["dateTo"].v[3] = 29

\* ======================================================================
\* Properties of the filter (checked under SpecFilter)
\* ======================================================================
\* The entity carries a non-empty tag set and is of the raw variant.
TaggedRaw(m) == m.variant = "raw" /\ m.tags.some /\ m.tags.v # {}

\* The entity satisfies every criterion that was supplied (not None).
SatisfiesAll(m, a) ==
    /\ a.include_pattern.some => search(a.include_pattern.v, m.filename)
    /\ a.exclude_pattern.some => ~search(a.exclude_pattern.v, m.filename)
    /\ a.filename_prefix.some => startswith(m.filename, a.filename_prefix.v)
    /\ a.filename_suffix.some => endswith(m.filename, a.filename_suffix.v)
    /\ a.include_tag_subset.some =>
           (TaggedRaw(m) /\ a.include_tag_subset.v \subseteq m.tags.v)
    /\ a.exclude_tag_subset.some =>
           (TaggedRaw(m) /\ ~(a.exclude_tag_subset.v \subseteq m.tags.v))

Criteria ==
    <<"include_pattern", "exclude_pattern", "filename_prefix", "filename_suffix",
      "include_tag_subset", "exclude_tag_subset">>

\* The arguments with the one criterion k of a and nothing else.
Only(a, k) == [NoArgs EXCEPT ![k] = a[k]]

\* filter applied once per criterion, in the order the sequence gives.
RECURSIVE OneAtATime(_, _, _)
OneAtATime(meta, a, order) ==
    IF order = <<>> THEN meta
    ELSE OneAtATime(filter(meta, Only(a, order[1])), a, SubSeq(order, 2, Len(order)))

Reverse(s) == [i \in DOMAIN s |-> s[Len(s) + 1 - i]]

\* C8: filter returns exactly the input entities that satisfy every supplied
\* criterion, and the criteria applied one at a time give the same result
\* forwards, backwards and with prefix and suffix swapped.
C8_FilterIsConjunction ==
    f.op = "filter" =>
        /\ f.out = SelectSeq(f.meta, LAMBDA m : SatisfiesAll(m, f.args))
        /\ OneAtATime(f.meta, f.args, Criteria) = f.out
        /\ OneAtATime(f.meta, f.args, Reverse(Criteria)) = f.out
        /\ OneAtATime(f.meta, f.args, <<"filename_suffix", "filename_prefix">>)
               = OneAtATime(f.meta, f.args, <<"filename_prefix", "filename_suffix">>)

\* C9: when include_tag_subset or exclude_tag_subset is supplied, an empty
\* set included, the result holds only raw entities with a non-empty tag
\* set; an empty include_tag_subset alone returns exactly the tagged raw
\* entities of the input.
C9_TagFilterKeepsTaggedRaw ==
    (f.op = "filter" /\ (f.args.include_tag_subset.some \/ f.args.exclude_tag_subset.some)) =>
        /\ \A i \in DOMAIN f.out : TaggedRaw(f.out[i])
        /\ f.args = [NoArgs EXCEPT !.include_tag_subset = SomeTags({})] =>
               f.out = SelectSeq(f.meta, TaggedRaw)

\* ======================================================================
\* Properties of the mapper (checked under SpecMap)
\* ======================================================================
\* C10: for records that each carry all base and raw-specific fields and an
\* instrumentInfo with all eight sub-keys, the mapping succeeds and returns
\* one RawMetadata per record, in order, each embedding an Instrument that
\* holds the values of the eight sub-keys.
C10_CompleteRecordsMap ==
    (mp.op = "raw" /\ \A i \in DOMAIN mp.res : IsComplete(mp.res[i])) =>
        /\ ~mp.raised
        /\ Len(mp.out) = Len(mp.res)
        /\ \A i \in DOMAIN mp.res :
               LET info == mp.res[i][instrumentInfo]
                   inst == mp.out[i][instrument]
               IN  /\ mp.out[i][<<"u", "u", "i", "d">>] = mp.res[i][<<"u", "u", "i", "d">>]
                   /\ {inst[k] : k \in DOMAIN inst} = {info[k] : k \in InstrumentInfoKeys}

\* ======================================================================
\* Properties of the gate (checked under SpecFair)
\* ======================================================================
\* Every permit is either in the semaphore or held by a transfer in flight.
PermitsConserved == value + Cardinality(InFlight) = limit

\* A request is sent only in a step that takes a permit that was there.
AcquiredBeforeRequest ==
    \A i \in 1..MaxEntities :
        (i \in requested' /\ i \notin requested /\ phase = "running") =>
            (value > 0 /\ value' = value - 1)

====
